---- MODULE Spec2Model ----
(***************************************************************************)
(* RSF (Ranked Spreadsheet Format) engine: cardinality analysis, column    *)
(* ranking, table reordering, canonical row sort and validation, as        *)
(* implemented in src/src/ranking.rs (library) and src/src/main.rs (CLI).  *)
(*                                                                         *)
(* Cells and column names are strings.  Vec indices are 0-based in the     *)
(* source; sequences here are 1-based, so v[i] of the source is v[i+1].    *)
(* Values that the source keeps 0-based (the provisional rank, the keys    *)
(* and values of old_to_new) stay 0-based in the model.                    *)
(***************************************************************************)
EXTENDS Integers, Sequences, FiniteSets, TLC

VARIABLES
    pc,              \* which operation ran last
    headers,         \* headers: &[String], the table's column names
    rows,            \* rows: &[Vec<String>], the table's rows
    options,         \* RankingOptions
    ranked_columns,  \* Vec<ColumnMeta>: the ranking, or the ranked list given
    stats,           \* Vec<ColumnStats> returned by compute_cardinality
    new_headers,     \* the headers returned by reorder_data
    new_rows,        \* the rows returned by reorder_data
    sorted,          \* the rows returned by sort_rows_canonical
    resorted,        \* the rows returned by sorting `sorted` again
    outcome,         \* the result(s) of the validation checks
    again,           \* the results of ranking and reordering a second time
    checks_run       \* the checks validate_rsf has run so far, in order

vars == <<pc, headers, rows, options, ranked_columns, stats,
          new_headers, new_rows, sorted, resorted, outcome, again, checks_run>>

(***************************************************************************)
(* Bounds of the explored inputs.                                          *)
(***************************************************************************)
\* Largest number of headers, and largest number of cells in a row.
MaxCols == 2
\* Largest number of rows of a table that is ranked or reordered.
MaxRows == 2
\* Largest number of rows handed to the canonical sort on its own.
MaxSortRows == 3

\* All sequences over S of length at most n.
SeqsUpTo(S, n) == UNION {[1..k -> S] : k \in 0..n}

Min(a, b) == IF a < b THEN a ELSE b

(***************************************************************************)
(* Strings.  String::cmp is byte-wise lexicographic; the cells used are    *)
(* listed here in that order ("" < " " < "NULL" < "a" < "b").              *)
(***************************************************************************)
ByteOrder == <<"", " ", "NULL", "a", "b">>

StrOrd(s) == CHOOSE i \in 1..Len(ByteOrder) : ByteOrder[i] = s

\* Ord::cmp on two strings.
StrCmp(x, y) ==
    IF StrOrd(x) < StrOrd(y) THEN "Less"
    ELSE IF StrOrd(x) > StrOrd(y) THEN "Greater"
    ELSE "Equal"

\* str::trim: strips leading and trailing whitespace.
Trim(s) == IF s = " " THEN "" ELSE s

(***************************************************************************)
(* sort_rows_canonical: the comparator and slice::sort_by.                 *)
(***************************************************************************)
\* The closure given to sort_by: compares a.iter().zip(b.iter()) cell by
\* cell, i.e. over the shorter of the two rows, and is Equal otherwise.
RECURSIVE RowCmpFrom(_, _, _)
RowCmpFrom(a, b, i) ==
    IF i > Min(Len(a), Len(b)) THEN "Equal"
    ELSE IF StrCmp(a[i], b[i]) = "Equal" THEN RowCmpFrom(a, b, i + 1)
    ELSE StrCmp(a[i], b[i])

RowCmp(a, b) == RowCmpFrom(a, b, 1)

RowNotGreater(a, b) == RowCmp(a, b) # "Greater"

\* is_less as sort_by derives it from the comparator.
RowLess(a, b) == RowCmp(a, b) = "Less"

\* slice::sort_by on a slice of at most 20 elements is a stable insertion
\* sort (insertion_sort_shift_left): each element in turn is moved left
\* past every predecessor it is less than.
RECURSIVE InsertRow(_, _)
InsertRow(prefix, x) ==
    IF prefix = <<>> THEN <<x>>
    ELSE IF RowLess(x, prefix[Len(prefix)])
         THEN Append(InsertRow(SubSeq(prefix, 1, Len(prefix) - 1), x),
                     prefix[Len(prefix)])
         ELSE Append(prefix, x)

RECURSIVE SortRowsFrom(_, _)
SortRowsFrom(done, rest) ==
    IF rest = <<>> THEN done
    ELSE SortRowsFrom(InsertRow(done, Head(rest)), Tail(rest))

sort_rows_canonical(rs) ==
    IF rs = <<>> THEN <<>> ELSE SortRowsFrom(<<>>, rs)

\* validate_sorted: Ok iff the rows equal their canonical sort.
validate_sorted(rs) ==
    IF sort_rows_canonical(rs) # rs THEN [kind |-> "SortError"] ELSE [kind |-> "Ok"]

(***************************************************************************)
(* Cardinality analysis (ranking.rs).                                      *)
(***************************************************************************)
\* ColumnStats::new
NewColumnStats(name) ==
    [name |-> name, cardinality |-> 0, distinct_values |-> {}]

\* ColumnStats::add_value: insert into the set, cardinality = set size.
add_value(stat, value) ==
    [stat EXCEPT !.distinct_values = @ \cup {value},
                 !.cardinality = Cardinality(stat.distinct_values \cup {value})]

normalize_value_untrimmed(value, opts) ==
    IF opts.treat_empty_as_null /\ value = ""
    THEN "NULL"
    ELSE value

\* normalize_value: both branches of the include_nulls test yield "NULL".
normalize_value(value, opts) ==
    IF opts.treat_empty_as_null /\ Trim(value) = ""
    THEN (IF opts.include_nulls THEN "NULL" ELSE "NULL")
    ELSE value

\* The inner loop of compute_cardinality over one row:
\* row.iter().enumerate().take(headers.len()), i is the 0-based index.
RECURSIVE CountRow(_, _, _, _, _)
CountRow(st, row, i, ncols, opts) ==
    IF i >= Min(Len(row), ncols) THEN st
    ELSE CountRow(
           IF i < Len(st)
           THEN [st EXCEPT ![i + 1] =
                    add_value(st[i + 1], normalize_value(row[i + 1], opts))]
           ELSE st,
           row, i + 1, ncols, opts)

\* The outer loop of compute_cardinality over the rows.
RECURSIVE CountRows(_, _, _, _)
CountRows(st, rs, ncols, opts) ==
    IF rs = <<>> THEN st
    ELSE CountRows(CountRow(st, Head(rs), 0, ncols, opts), Tail(rs), ncols, opts)

compute_cardinality(hs, rs, opts) ==
    IF hs = <<>> THEN <<>>
    ELSE CountRows([i \in 1..Len(hs) |-> NewColumnStats(hs[i])],
                   rs, Len(hs), opts)

(***************************************************************************)
(* Column ranking (ranking.rs).                                            *)
(***************************************************************************)
NumCmp(x, y) == IF x < y THEN "Less" ELSE IF x > y THEN "Greater" ELSE "Equal"

ColumnCmpAscending(a, b) ==
    IF NumCmp(a.cardinality, b.cardinality) # "Equal"
    THEN NumCmp(a.cardinality, b.cardinality)
    ELSE NumCmp(a.rank, b.rank)

ColumnCmpTiesReversed(a, b) ==
    IF NumCmp(b.cardinality, a.cardinality) # "Equal"
    THEN NumCmp(b.cardinality, a.cardinality)
    ELSE NumCmp(b.rank, a.rank)

\* The closure given to columns.sort_by:
\* b.cardinality.cmp(&a.cardinality).then(a.rank.cmp(&b.rank))
ColumnCmp(a, b) ==
    IF NumCmp(b.cardinality, a.cardinality) # "Equal"
    THEN NumCmp(b.cardinality, a.cardinality)
    ELSE NumCmp(a.rank, b.rank)

\* slice::sort_by (stable insertion sort, as for the rows).
RECURSIVE InsertColumn(_, _)
InsertColumn(prefix, x) ==
    IF prefix = <<>> THEN <<x>>
    ELSE IF ColumnCmp(x, prefix[Len(prefix)]) = "Less"
         THEN Append(InsertColumn(SubSeq(prefix, 1, Len(prefix) - 1), x),
                     prefix[Len(prefix)])
         ELSE Append(prefix, x)

RECURSIVE SortColumnsFrom(_, _)
SortColumnsFrom(done, rest) ==
    IF rest = <<>> THEN done
    ELSE SortColumnsFrom(InsertColumn(done, Head(rest)), Tail(rest))

\* The initial column metadata: rank holds the 0-based original position.
InitialColumns(st) ==
    [i \in 1..Len(st) |->
        [name |-> st[i].name, rank |-> i - 1, cardinality |-> st[i].cardinality]]

\* The columns after columns.sort_by, before the ranks are updated.
SortedColumns(st) == SortColumnsFrom(<<>>, InitialColumns(st))

\* "Update ranks": col.rank = new_rank + 1 with new_rank the 0-based position.
UpdateRanks(cols) ==
    [i \in 1..Len(cols) |-> [cols[i] EXCEPT !.rank = (i - 1) + 1]]

\* The early return of rank_columns for an empty row list: rank is idx.
RankWithoutRows(hs) ==
    [i \in 1..Len(hs) |-> [name |-> hs[i], rank |-> i - 1, cardinality |-> 0]]

rank_columns(hs, rs, opts) ==
    IF hs = <<>> THEN <<>>
    ELSE IF rs = <<>> THEN RankWithoutRows(hs)
    ELSE UpdateRanks(SortedColumns(compute_cardinality(hs, rs, opts)))

(***************************************************************************)
(* Table reordering (ranking.rs; the body is the same in main.rs).         *)
(***************************************************************************)
\* headers.iter().position(|h| h == name): the 0-based index of the first
\* match, or -1 for None.
Position(hs, name) ==
    IF \E i \in 1..Len(hs) : hs[i] = name
    THEN (CHOOSE i \in 1..Len(hs) :
             hs[i] = name /\ \A j \in 1..(i - 1) : hs[j] # name) - 1
    ELSE -1

EmptyMap == [k \in {} |-> 0]

\* HashMap::insert: a later insert under the same key replaces the value.
MapInsert(m, k, v) ==
    [x \in DOMAIN m \cup {k} |-> IF x = k THEN v ELSE m[x]]

\* The loop that fills old_to_new; new_idx is the 0-based ranked position.
RECURSIVE BuildOldToNew(_, _, _, _)
BuildOldToNew(m, hs, ranked, new_idx) ==
    IF new_idx >= Len(ranked) THEN m
    ELSE BuildOldToNew(
           IF Position(hs, ranked[new_idx + 1].name) # -1
           THEN MapInsert(m, Position(hs, ranked[new_idx + 1].name), new_idx)
           ELSE m,
           hs, ranked, new_idx + 1)

\* The closure mapped over the rows: new_row starts as row.len() empty
\* strings; new_row[new_idx] = value panics when new_idx >= row.len().
RECURSIVE ReorderRow(_, _, _, _)
ReorderRow(acc, row, old_to_new, old_idx) ==
    IF acc.panic \/ old_idx >= Len(row) THEN acc
    ELSE IF old_idx \in DOMAIN old_to_new
         THEN IF old_to_new[old_idx] >= Len(acc.row)
              THEN [acc EXCEPT !.panic = TRUE]
              ELSE ReorderRow(
                     [acc EXCEPT !.row[old_to_new[old_idx] + 1] = row[old_idx + 1]],
                     row, old_to_new, old_idx + 1)
         ELSE ReorderRow(acc, row, old_to_new, old_idx + 1)

NewRow(row, old_to_new) ==
    ReorderRow([panic |-> FALSE, row |-> [i \in 1..Len(row) |-> ""]],
               row, old_to_new, 0)

\* Everything of reorder_data after the early return.  A panic in any row
\* aborts the call: nothing is returned.
ReorderBody(hs, rs, ranked) ==
    LET old_to_new == BuildOldToNew(EmptyMap, hs, ranked, 0)
        built == [k \in 1..Len(rs) |-> NewRow(rs[k], old_to_new)]
    IN  IF \E k \in 1..Len(rs) : built[k].panic
        THEN [outcome |-> "Panic", headers |-> <<>>, rows |-> <<>>]
        ELSE [outcome |-> "Ok",
              headers |-> [j \in 1..Len(ranked) |-> ranked[j].name],
              rows |-> [k \in 1..Len(rs) |-> built[k].row]]

reorder_data_without_early_return(hs, rs, ranked) == ReorderBody(hs, rs, ranked)

reorder_data(hs, rs, ranked) ==
    IF ranked = <<>>
    THEN [outcome |-> "Ok", headers |-> <<>>, rows |-> <<>>]
    ELSE ReorderBody(hs, rs, ranked)

(***************************************************************************)
(* Validation.                                                             *)
(***************************************************************************)
Ok == [kind |-> "Ok"]

SetMin(S) == CHOOSE x \in S : \A y \in S : x <= y

\* validate_column_order (ranking.rs)
validate_column_order(hs, schema_columns) ==
    IF schema_columns = <<>> THEN Ok
    ELSE IF Len(hs) # Len(schema_columns)
    THEN [kind |-> "SchemaError", what |-> "column count",
          schema |-> Len(schema_columns), actual |-> Len(hs)]
    ELSE LET bad == {idx \in 0..(Len(schema_columns) - 1) :
                        hs[idx + 1] # schema_columns[idx + 1].name}
         IN  IF bad = {} THEN Ok
             ELSE [kind |-> "ColumnOrderError", position |-> SetMin(bad),
                   expected |-> schema_columns[SetMin(bad) + 1].name,
                   found |-> hs[SetMin(bad) + 1]]

ValidateRanksZeroBased(schema_columns) ==
    LET bad == {idx \in 0..(Len(schema_columns) - 1) :
                   schema_columns[idx + 1].rank # idx}
    IN  IF bad = {} THEN Ok
        ELSE [kind |-> "InvalidRank",
              column |-> schema_columns[SetMin(bad) + 1].name,
              expected |-> SetMin(bad),
              found |-> schema_columns[SetMin(bad) + 1].rank]

\* "Validate ranks are sequential" of validate_rsf (main.rs)
ValidateRanks(schema_columns) ==
    LET bad == {idx \in 0..(Len(schema_columns) - 1) :
                   schema_columns[idx + 1].rank # idx + 1}
    IN  IF bad = {} THEN Ok
        ELSE [kind |-> "InvalidRank",
              column |-> schema_columns[SetMin(bad) + 1].name,
              expected |-> SetMin(bad) + 1,
              found |-> schema_columns[SetMin(bad) + 1].rank]

\* The HashMap name -> cardinality of validate_cardinality_order, filled in
\* stats order, so the last column of a given name provides the value.
RECURSIVE BuildCardinalities(_, _, _)
BuildCardinalities(m, st, i) ==
    IF i > Len(st) THEN m
    ELSE BuildCardinalities(MapInsert(m, st[i].name, st[i].cardinality), st, i + 1)

\* validate_cardinality_order (ranking.rs)
validate_cardinality_order(hs, rs, schema_columns, opts) ==
    IF schema_columns = <<>> THEN Ok
    ELSE
    LET cardinalities ==
            BuildCardinalities(EmptyMap, compute_cardinality(hs, rs, opts), 1)
        n == Len(schema_columns)
        missing == {i \in 1..n : schema_columns[i].name \notin DOMAIN cardinalities}
        wrong == {i \in 1..n :
                     \/ schema_columns[i].name \notin DOMAIN cardinalities
                     \/ cardinalities[schema_columns[i].name]
                          # schema_columns[i].cardinality}
        unordered == {i \in 1..(n - 1) :
                         cardinalities[schema_columns[i].name]
                           < cardinalities[schema_columns[i + 1].name]}
    IN  IF wrong # {}
        THEN IF SetMin(wrong) \in missing
             THEN [kind |-> "SchemaError", what |-> "column not found",
                   column |-> schema_columns[SetMin(wrong)].name]
             ELSE [kind |-> "SchemaError", what |-> "cardinality mismatch",
                   column |-> schema_columns[SetMin(wrong)].name,
                   schema |-> schema_columns[SetMin(wrong)].cardinality,
                   actual |-> cardinalities[schema_columns[SetMin(wrong)].name]]
        ELSE IF unordered # {}
        THEN [kind |-> "CardinalityError",
              column |-> schema_columns[SetMin(unordered)].name,
              expected |-> cardinalities[schema_columns[SetMin(unordered) + 1].name],
              found |-> cardinalities[schema_columns[SetMin(unordered)].name]]
        ELSE Ok

(***************************************************************************)
(* validate_rsf and its helpers (main.rs).                                 *)
(***************************************************************************)
\* The loop body of main.rs's compute_cardinality over one row: every cell
\* of the row is visited, stats.get_mut(i) skips the cells beyond the stats.
RECURSIVE MainCountRow(_, _, _, _)
MainCountRow(st, row, i, nulls_distinct) ==
    IF i >= Len(row) THEN st
    ELSE MainCountRow(
           IF i < Len(st)
           THEN [st EXCEPT ![i + 1] =
                    add_value(st[i + 1],
                              IF Trim(row[i + 1]) = "" /\ ~nulls_distinct
                              THEN "NULL" ELSE row[i + 1])]
           ELSE st,
           row, i + 1, nulls_distinct)

RECURSIVE MainCountRows(_, _, _)
MainCountRows(st, rs, nulls_distinct) ==
    IF rs = <<>> THEN st
    ELSE MainCountRows(MainCountRow(st, Head(rs), 0, nulls_distinct),
                       Tail(rs), nulls_distinct)

main_compute_cardinality_skipping_empty(hs, rs, nulls_distinct) ==
    IF rs = <<>> THEN <<>>
    ELSE MainCountRows([i \in 1..Len(hs) |-> NewColumnStats(hs[i])], rs, nulls_distinct)

\* compute_cardinality of main.rs: one ColumnStats per header, always.
main_compute_cardinality(hs, rs, nulls_distinct) ==
    MainCountRows([i \in 1..Len(hs) |-> NewColumnStats(hs[i])], rs, nulls_distinct)

\* "Validate column order matches schema" of validate_rsf: per schema
\* column, bail if there is no header at idx, or if the header differs.
RsfColumnOrder(hs, schema_columns) ==
    LET bad == {idx \in 0..(Len(schema_columns) - 1) :
                   \/ idx >= Len(hs)
                   \/ hs[idx + 1] # schema_columns[idx + 1].name}
    IN  IF bad = {} THEN Ok
        ELSE IF SetMin(bad) >= Len(hs)
        THEN [kind |-> "SchemaHasMoreColumns"]
        ELSE [kind |-> "ColumnOrderMismatch", position |-> SetMin(bad),
              expected |-> schema_columns[SetMin(bad) + 1].name,
              found |-> hs[SetMin(bad) + 1]]

\* stats.iter().find(|s| s.name == name): some statistics carry the name.
Found(st, name) == \E i \in 1..Len(st) : st[i].name = name

\* The cardinality of the first statistics of that name.
FoundCardinality(st, name) ==
    st[CHOOSE i \in 1..Len(st) :
          st[i].name = name /\ \A j \in 1..(i - 1) : st[j].name # name].cardinality

\* "Validate cardinality ordering" of validate_rsf: for every window of
\* two schema columns both names are looked up and unwrapped (a panic when
\* a name has no statistics); a pair in ascending order is only warned of.
RsfCardinalityOrder(st, schema_columns) ==
    LET windows == 1..(Len(schema_columns) - 1)
        missing == {w \in windows :
                       \/ ~Found(st, schema_columns[w].name)
                       \/ ~Found(st, schema_columns[w + 1].name)}
    IN  IF missing # {}
        THEN [kind |-> "Panic", warnings |-> {}]
        ELSE [kind |-> "Ok",
              warnings |-> {w \in windows :
                  FoundCardinality(st, schema_columns[w].name)
                    < FoundCardinality(st, schema_columns[w + 1].name)}]

\* "Validate rows are sorted" of validate_rsf.
RsfSorted(rs) ==
    IF sort_rows_canonical(rs) # rs THEN [kind |-> "SortError"] ELSE Ok

\* The order of the blocks of validate_rsf.
StepAfter(step) ==
    CASE step = "rsf_column_order" -> "rsf_ranks"
      [] step = "rsf_ranks" -> "rsf_cardinality"
      [] step = "rsf_cardinality" -> "rsf_sorted"
      [] step = "rsf_sorted" -> "rsf_valid"

\* Where validate_rsf goes after a block: anyhow::bail! returns the error,
\* a failed unwrap panics, otherwise the next block runs (Ok(()) at the end).
GoAfter(step, result) ==
    IF result.kind = "Panic" THEN "rsf_panicked"
    ELSE IF result.kind # "Ok" THEN "rsf_rejected"
    ELSE StepAfter(step)

(***************************************************************************)
(* State and inputs.                                                       *)
(***************************************************************************)
\* RankingOptions::default()
DefaultOptions == [treat_empty_as_null |-> TRUE, include_nulls |-> FALSE]

OptionChoices ==
    {DefaultOptions,
     [treat_empty_as_null |-> FALSE, include_nulls |-> FALSE],
     [treat_empty_as_null |-> TRUE, include_nulls |-> TRUE]}

NoOutcome == [kind |-> "none"]

\* Nothing ranked or reordered a second time yet.
NoSecondPass == [ranked |-> <<>>, headers |-> <<>>, rows |-> <<>>]

\* The rows of 1 to MaxCols cells (a record of the tabular reader has at
\* least one field), whatever the number of headers.
Rows(cells) == UNION {[1..k -> cells] : k \in 1..MaxCols}

\* All tables of at most n rows.
Tables(cells, n) == SeqsUpTo(Rows(cells), n)

ColumnNames == <<"A", "B", "C", "D">>

\* Header lists of pairwise different names.
UniqueHeaders == {SubSeq(ColumnNames, 1, n) : n \in 0..MaxCols}

\* Header lists that may repeat a name.
AnyHeaders == SeqsUpTo({"A", "B"}, MaxCols)

\* Ranked column lists as a caller may pass them to reorder_data: pairwise
\* different names, some of which may not be headers.
RankedLists ==
    {[j \in 1..Len(names) |-> [name |-> names[j], rank |-> j, cardinality |-> 0]] :
        names \in {ns \in SeqsUpTo({"A", "B"}, MaxCols) :
                      \A i, j \in 1..Len(ns) : ns[i] = ns[j] => i = j}}

Idle ==
    /\ ranked_columns = <<>>
    /\ stats = <<>>
    /\ new_headers = <<>>
    /\ new_rows = <<>>
    /\ sorted = <<>>
    /\ resorted = <<>>
    /\ outcome = NoOutcome
    /\ again = NoSecondPass
    /\ checks_run = <<>>

(***************************************************************************)
(* Operations.                                                             *)
(***************************************************************************)
\* stats = compute_cardinality(headers, rows, options)
ComputeCardinality ==
    /\ pc = "input"
    /\ stats' = compute_cardinality(headers, rows, options)
    /\ pc' = "counted"
    /\ UNCHANGED <<again, checks_run, headers, rows, options, ranked_columns,
                   new_headers, new_rows, sorted, resorted, outcome>>

\* ranked_columns = rank_columns(headers, rows, options)
RankColumns ==
    /\ pc = "input"
    /\ ranked_columns' = rank_columns(headers, rows, options)
    /\ pc' = "ranked"
    /\ UNCHANGED <<again, checks_run, headers, rows, options, stats,
                   new_headers, new_rows, sorted, resorted, outcome>>

\* (new_headers, new_rows) = reorder_data(headers, rows, ranked_columns)
ReorderData ==
    /\ pc = "ranked"
    /\ LET r == reorder_data(headers, rows, ranked_columns)
       IN  /\ new_headers' = r.headers
           /\ new_rows' = r.rows
           /\ pc' = IF r.outcome = "Ok" THEN "reordered" ELSE "panicked"
    /\ UNCHANGED <<again, checks_run, headers, rows, options, ranked_columns, stats,
                   sorted, resorted, outcome>>

\* sorted = sort_rows_canonical(new_rows)
CanonicalSort ==
    /\ pc = "reordered"
    /\ sorted' = sort_rows_canonical(new_rows)
    /\ pc' = "canonical"
    /\ UNCHANGED <<again, checks_run, headers, rows, options, ranked_columns, stats,
                   new_headers, new_rows, resorted, outcome>>

\* The four checks of validation on (new_headers, sorted) against
\* ranked_columns, with the options used for the ranking.
Validate ==
    /\ pc = "canonical"
    /\ outcome' =
         [kind |-> "checks",
          column_order |-> validate_column_order(new_headers, ranked_columns),
          rank_sequence |-> ValidateRanks(ranked_columns),
          cardinality |->
              validate_cardinality_order(new_headers, sorted, ranked_columns, options),
          sorted |-> validate_sorted(sorted)]
    /\ pc' = "validated"
    /\ UNCHANGED <<again, checks_run, headers, rows, options, ranked_columns, stats,
                   new_headers, new_rows, sorted, resorted>>

\* sorted = sort_rows_canonical(rows)
SortRows ==
    /\ pc = "unsorted"
    /\ sorted' = sort_rows_canonical(rows)
    /\ pc' = "sorted"
    /\ UNCHANGED <<again, checks_run, headers, rows, options, ranked_columns, stats,
                   new_headers, new_rows, resorted, outcome>>

\* resorted = sort_rows_canonical(sorted)
SortAgain ==
    /\ pc = "sorted"
    /\ resorted' = sort_rows_canonical(sorted)
    /\ pc' = "resorted"
    /\ UNCHANGED <<again, checks_run, headers, rows, options, ranked_columns, stats,
                   new_headers, new_rows, sorted, outcome>>

\* validate_sorted(sorted)
ValidateSorted ==
    /\ pc = "resorted"
    /\ outcome' = validate_sorted(sorted)
    /\ pc' = "checked"
    /\ UNCHANGED <<again, checks_run, headers, rows, options, ranked_columns, stats,
                   new_headers, new_rows, sorted, resorted>>

(***************************************************************************)
(* The pipeline rank -> reorder -> sort -> validate on any table.          *)
(***************************************************************************)
PipelineCells == {"", "a"}

Init ==
    /\ pc = "input"
    /\ headers \in UniqueHeaders
    /\ rows \in Tables(PipelineCells, MaxRows)
    /\ options \in OptionChoices
    /\ Idle

Next == RankColumns \/ ReorderData \/ CanonicalSort \/ Validate

Spec == Init /\ [][Next]_vars

(***************************************************************************)
(* Cardinality analysis and ranking of a table.                            *)
(***************************************************************************)
RankCells == {"", " ", "a"}

InitRank ==
    /\ pc = "input"
    /\ headers \in UniqueHeaders
    /\ rows \in Tables(RankCells, MaxRows)
    /\ options \in OptionChoices
    /\ Idle

NextRank == ComputeCardinality \/ RankColumns

SpecRank == InitRank /\ [][NextRank]_vars

(***************************************************************************)
(* reorder_data on any headers, rows and ranked column list.               *)
(***************************************************************************)
ReorderCells == {"a", "b"}

\* Largest number of rows handed to reorder_data on its own.
MaxReorderRows == 1

InitReorder ==
    /\ pc = "ranked"
    /\ headers \in AnyHeaders
    /\ rows \in Tables(ReorderCells, MaxReorderRows)
    /\ options = DefaultOptions
    /\ ranked_columns \in RankedLists
    /\ stats = <<>>
    /\ new_headers = <<>>
    /\ new_rows = <<>>
    /\ sorted = <<>>
    /\ resorted = <<>>
    /\ outcome = NoOutcome
    /\ again = NoSecondPass
    /\ checks_run = <<>>

NextReorder == ReorderData

SpecReorder == InitReorder /\ [][NextReorder]_vars

(***************************************************************************)
(* The canonical sort on its own.                                          *)
(***************************************************************************)
SortCells == {"a", "b"}

InitSort ==
    /\ pc = "unsorted"
    /\ rows \in Tables(SortCells, MaxSortRows)
    /\ headers = <<>>
    /\ options = DefaultOptions
    /\ Idle

NextSort == SortRows \/ SortAgain \/ ValidateSorted

SpecSort == InitSort /\ [][NextSort]_vars

(***************************************************************************)
(* Validation of a table against any schema: validate_rsf (main.rs), block *)
(* by block, and the checks of ranking.rs.                                 *)
(***************************************************************************)
\* The checks of ranking.rs, each on its own, with the default options.
LibraryChecks ==
    /\ pc = "rsf_column_order"
    /\ outcome' =
         [kind |-> "checks",
          column_order |-> validate_column_order(headers, ranked_columns),
          cardinality |->
              validate_cardinality_order(headers, rows, ranked_columns, options),
          sorted |-> validate_sorted(rows)]
    /\ pc' = "lib_checked"
    /\ UNCHANGED <<again, checks_run, headers, rows, options, ranked_columns,
                   stats, new_headers, new_rows, sorted, resorted>>

\* validate_rsf, lines 362-376.
RsfCheckColumnOrder ==
    /\ pc = "rsf_column_order"
    /\ LET result == RsfColumnOrder(headers, ranked_columns)
       IN  /\ outcome' = result
           /\ pc' = GoAfter(pc, result)
    /\ checks_run' = Append(checks_run, "column_order")
    /\ UNCHANGED <<again, headers, rows, options, ranked_columns,
                   stats, new_headers, new_rows, sorted, resorted>>

\* validate_rsf, lines 378-388.
RsfCheckRanks ==
    /\ pc = "rsf_ranks"
    /\ LET result == ValidateRanks(ranked_columns)
       IN  /\ outcome' = result
           /\ pc' = GoAfter(pc, result)
    /\ checks_run' = Append(checks_run, "rank_sequence")
    /\ UNCHANGED <<again, headers, rows, options, ranked_columns,
                   stats, new_headers, new_rows, sorted, resorted>>

\* validate_rsf, lines 390-405: compute_cardinality(&headers, &rows, true).
RsfCheckCardinality ==
    /\ pc = "rsf_cardinality"
    /\ stats' = main_compute_cardinality(headers, rows, TRUE)
    /\ LET result == RsfCardinalityOrder(stats', ranked_columns)
       IN  /\ outcome' = result
           /\ pc' = GoAfter(pc, result)
    /\ checks_run' = Append(checks_run, "cardinality")
    /\ UNCHANGED <<again, headers, rows, options, ranked_columns,
                   new_headers, new_rows, sorted, resorted>>

\* validate_rsf, lines 407-413.
RsfCheckSorted ==
    /\ pc = "rsf_sorted"
    /\ sorted' = sort_rows_canonical(rows)
    /\ LET result == RsfSorted(rows)
       IN  /\ outcome' = result
           /\ pc' = GoAfter(pc, result)
    /\ checks_run' = Append(checks_run, "sorted")
    /\ UNCHANGED <<again, headers, rows, options, ranked_columns,
                   stats, new_headers, new_rows, resorted>>

ValidateCells == {"a", "b"}

\* The tables the CSV reader delivers: every record has as many fields as
\* the header record, and a file without header fields has no records.
ReadTables(hs, cells) ==
    IF hs = <<>> THEN {<<>>}
    ELSE SeqsUpTo([1..Len(hs) -> cells], MaxRows)

\* The schemas of at most MaxCols columns for a table: per column any of
\* two names, the rank 1-based or 0-based, and as cardinality the one
\* validate_rsf recomputes for the column at that position (0 where the
\* table has no such column) or one more.
Schemas(hs, rs) ==
    LET st == main_compute_cardinality(hs, rs, TRUE)
        recomputed == [i \in 1..MaxCols |->
                          IF i <= Len(st) THEN st[i].cardinality ELSE 0]
    IN  {[i \in 1..Len(c) |->
            [name |-> c[i].name,
             rank |-> IF c[i].zero_based THEN i - 1 ELSE i,
             cardinality |-> recomputed[i] + (IF c[i].off_by_one THEN 1 ELSE 0)]] :
         c \in SeqsUpTo([name : {"A", "B"}, zero_based : BOOLEAN,
                         off_by_one : BOOLEAN], MaxCols)}

InitValidate ==
    /\ pc = "rsf_column_order"
    /\ headers \in UniqueHeaders
    /\ rows \in ReadTables(headers, ValidateCells)
    /\ options = DefaultOptions
    /\ ranked_columns \in Schemas(headers, rows)
    /\ stats = <<>>
    /\ new_headers = <<>>
    /\ new_rows = <<>>
    /\ sorted = <<>>
    /\ resorted = <<>>
    /\ outcome = NoOutcome
    /\ again = NoSecondPass
    /\ checks_run = <<>>

NextValidate ==
    \/ LibraryChecks
    \/ RsfCheckColumnOrder
    \/ RsfCheckRanks
    \/ RsfCheckCardinality
    \/ RsfCheckSorted

SpecValidate == InitValidate /\ [][NextValidate]_vars

(***************************************************************************)
(* Canonicalizing twice: rank_columns and reorder_data of ranking.rs        *)
(* applied to a well-formed table, then again to their own output.          *)
(***************************************************************************)
\* ranked_columns of the second pass = rank_columns(new_headers, new_rows, options)
RankAgain ==
    /\ pc = "reordered"
    /\ again' = [again EXCEPT !.ranked = rank_columns(new_headers, new_rows, options)]
    /\ pc' = "reranked"
    /\ UNCHANGED <<checks_run, headers, rows, options, ranked_columns, stats,
                   new_headers, new_rows, sorted, resorted, outcome>>

\* (headers, rows) of the second pass =
\*     reorder_data(new_headers, new_rows, ranked_columns of the second pass)
ReorderAgain ==
    /\ pc = "reranked"
    /\ LET r == reorder_data(new_headers, new_rows, again.ranked)
       IN  /\ again' = [again EXCEPT !.headers = r.headers, !.rows = r.rows]
           /\ pc' = IF r.outcome = "Ok" THEN "rereordered" ELSE "panicked"
    /\ UNCHANGED <<checks_run, headers, rows, options, ranked_columns, stats,
                   new_headers, new_rows, sorted, resorted, outcome>>

FixedPointCells == {"", "a", "b"}

\* Well-formed tables: pairwise different headers, at least one row, every
\* row with one cell per header.
WellFormedTables(hs, cells) ==
    {rs \in ReadTables(hs, cells) : rs # <<>>}

InitFixedPoint ==
    /\ pc = "input"
    /\ headers \in UniqueHeaders \ {<<>>}
    /\ rows \in WellFormedTables(headers, FixedPointCells)
    /\ options \in OptionChoices
    /\ Idle

NextFixedPoint ==
    \/ RankColumns
    \/ ReorderData
    \/ RankAgain
    \/ ReorderAgain

SpecFixedPoint == InitFixedPoint /\ [][NextFixedPoint]_vars

(***************************************************************************)
(* Properties.                                                             *)
(***************************************************************************)
\* The cells of column i (1-based) over the rows that have such a cell.
ColumnCells(rs, i) == {rs[k][i] : k \in {k \in 1..Len(rs) : Len(rs[k]) >= i}}

\* The normalisation of section 4.1: the sentinel "NULL" exactly for a
\* whitespace-only cell under treat_empty_as_null, otherwise the raw cell.
Normalized(cell, opts) ==
    IF opts.treat_empty_as_null /\ cell \in {"", " "} THEN "NULL" ELSE cell

\* The number of distinct normalised values of column i.
DistinctCount(rs, i, opts) ==
    Cardinality({Normalized(c, opts) : c \in ColumnCells(rs, i)})

AllOk ==
    /\ outcome.column_order.kind = "Ok"
    /\ outcome.rank_sequence.kind = "Ok"
    /\ outcome.cardinality.kind = "Ok"
    /\ outcome.sorted.kind = "Ok"

\* C1: Validator round-trip.  For any table, ranking it, reordering it by
\* the ranking and sorting the reordered rows completes (the reorder
\* returns), and the result passes the column-order, rank-sequencing,
\* cardinality and sorted-rows checks against the ranking.
C1_RoundTrip ==
    /\ pc # "panicked"
    /\ pc = "validated" => AllOk

\* C2: Rank contiguity.  For a non-empty header list and any row list the
\* ranks of rank_columns are exactly 1..N, and the column at output
\* position i (0-based) carries rank i+1.
C2_RankContiguity ==
    (pc = "ranked" /\ headers # <<>>) =>
        /\ Len(ranked_columns) = Len(headers)
        /\ {ranked_columns[i].rank : i \in 1..Len(ranked_columns)} = 1..Len(headers)
        /\ \A i \in 1..Len(ranked_columns) : ranked_columns[i].rank = i

\* C3: Ranking order and tie-break stability.  The ranked columns are the
\* headers, each with its column's cardinality; the cardinalities are
\* non-increasing, and columns of equal cardinality keep the relative order
\* they have in the headers.
C3_RankOrder ==
    pc = "ranked" =>
        /\ Len(ranked_columns) = Len(headers)
        /\ {ranked_columns[i].name : i \in 1..Len(ranked_columns)}
             = {headers[i] : i \in 1..Len(headers)}
        /\ \A i \in 1..Len(ranked_columns) :
              ranked_columns[i].cardinality =
                  DistinctCount(rows, Position(headers, ranked_columns[i].name) + 1,
                                options)
        /\ \A i, j \in 1..Len(ranked_columns) :
              i < j =>
                /\ ranked_columns[i].cardinality >= ranked_columns[j].cardinality
                /\ ranked_columns[i].cardinality = ranked_columns[j].cardinality
                     => Position(headers, ranked_columns[i].name)
                          < Position(headers, ranked_columns[j].name)

\* A ranking that moved the second header in front of the first.
C3_Witness ==
    /\ pc = "ranked"
    /\ Len(headers) = 2
    /\ ranked_columns[1].name = headers[2]
    /\ ranked_columns[1].cardinality > ranked_columns[2].cardinality

C5_SortTotality ==
    pc \in {"sorted", "resorted", "checked"} =>
        \A i, j \in 1..Len(sorted) :
            i < j => RowCmp(sorted[i], sorted[j]) # "Greater"

\* The row sequences that are permutations of rs.
PermutationsOf(rs) ==
    {[i \in 1..Len(rs) |-> rs[f[i]]] : f \in Permutations(1..Len(rs))}

\* C6: Canonical row form.  Every permutation of the input rows sorts to
\* the same sequence as the input rows.
C6_CanonicalForm ==
    pc = "sorted" =>
        \A other \in PermutationsOf(rows) : sort_rows_canonical(other) = sorted

\* C7: Sort idempotence.  Sorting the sorted rows again returns them
\* unchanged, and validate_sorted accepts the sorted rows.
C7_SortIdempotent ==
    /\ pc \in {"resorted", "checked"} => resorted = sorted
    /\ pc = "checked" => outcome.kind = "Ok"

\* Rows of differing lengths that the sort had to move.
C7_Witness ==
    /\ pc = "checked"
    /\ sorted # rows
    /\ \E i, j \in 1..Len(rows) : Len(rows[i]) # Len(rows[j])
    /\ outcome.kind = "Ok"

RankedNames == [j \in 1..Len(ranked_columns) |-> ranked_columns[j].name]

UniqueRankedNames ==
    \A i, j \in 1..Len(ranked_columns) :
        ranked_columns[i].name = ranked_columns[j].name => i = j

\* C8: Reorder correctness.  reorder_data returns the ranked names as
\* headers and one output row per input row; the cell at the position of a
\* ranked column is the row's value of the original column of that name
\* (first match), and the empty string when the name is not a header.
\* Stated for ranked lists of pairwise different names.
C8_ReorderCorrect ==
    (pc \in {"reordered", "panicked"} /\ ranked_columns # <<>> /\ UniqueRankedNames) =>
        /\ pc = "reordered"
        /\ new_headers = RankedNames
        /\ Len(new_rows) = Len(rows)
        /\ \A k \in 1..Len(rows) : \A j \in 1..Len(ranked_columns) :
              LET old == Position(headers, ranked_columns[j].name)
              IN  /\ old = -1 =>
                        /\ Len(new_rows[k]) >= j
                        /\ new_rows[k][j] = ""
                  /\ (old # -1 /\ old < Len(rows[k])) =>
                        /\ Len(new_rows[k]) >= j
                        /\ new_rows[k][j] = rows[k][old + 1]

\* C9: No partial success in reordering.  reorder_data always returns
\* (new headers and rows, or an error value); it never aborts.
C9_ReorderNeverAborts == pc # "panicked"

NameMismatches ==
    {idx \in 0..(Min(Len(headers), Len(ranked_columns)) - 1) :
        headers[idx + 1] # ranked_columns[idx + 1].name}

\* The block of validate_rsf that produced its result, "none" when valid.
ReportedCheck ==
    IF pc = "rsf_valid" THEN "none" ELSE checks_run[Len(checks_run)]

\* C11: Column-order conformance.  The column-order check fails whenever the
\* schema and the headers differ in length; for equal lengths it fails iff
\* some header differs from the schema name at its position, and the error
\* carries the smallest such position with the schema name as expected and
\* the header as found.  Stated of validate_column_order and of the
\* column-order block of validate_rsf.
C11_ColumnOrder ==
    /\ pc = "lib_checked" =>
          /\ Len(ranked_columns) # Len(headers) => outcome.column_order.kind # "Ok"
          /\ Len(ranked_columns) = Len(headers) =>
                IF NameMismatches = {}
                THEN outcome.column_order.kind = "Ok"
                ELSE outcome.column_order =
                        [kind |-> "ColumnOrderError",
                         position |-> SetMin(NameMismatches),
                         expected |-> ranked_columns[SetMin(NameMismatches) + 1].name,
                         found |-> headers[SetMin(NameMismatches) + 1]]
    /\ (pc \in {"rsf_ranks", "rsf_rejected"} /\ checks_run = <<"column_order">>) =>
          /\ Len(ranked_columns) # Len(headers) => pc = "rsf_rejected"
          /\ Len(ranked_columns) = Len(headers) =>
                (pc = "rsf_rejected" <=> NameMismatches # {})

\* validate_rsf recomputes the cardinalities without any normalisation.
AsRead == [treat_empty_as_null |-> FALSE, include_nulls |-> TRUE]

\* The schema columns (1-based) whose stored cardinality differs from the
\* one recomputed for the column at that position.
CardinalityMismatches(opts) ==
    {i \in 1..Min(Len(headers), Len(ranked_columns)) :
        ranked_columns[i].cardinality # DistinctCount(rows, i, opts)}

\* C12: Cardinality agreement.  Validation fails whenever a schema column's
\* stored cardinality differs from the recomputed one, and the failure of
\* the cardinality check names such a column with the stored and the
\* recomputed cardinality.  Stated of validate_rsf and, for a schema whose
\* names conform, of validate_cardinality_order.
C12_CardinalityAgreement ==
    /\ pc = "rsf_valid" => CardinalityMismatches(AsRead) = {}
    /\ (/\ pc = "lib_checked"
        /\ Len(ranked_columns) = Len(headers)
        /\ NameMismatches = {}
        /\ CardinalityMismatches(options) # {}) =>
          /\ outcome.cardinality.kind = "SchemaError"
          /\ outcome.cardinality.what = "cardinality mismatch"
          /\ \E i \in CardinalityMismatches(options) :
                /\ outcome.cardinality.column = ranked_columns[i].name
                /\ outcome.cardinality.schema = ranked_columns[i].cardinality
                /\ outcome.cardinality.actual = DistinctCount(rows, i, options)

\* The 0-based schema positions whose stored rank is not position + 1.
RankMismatches ==
    {idx \in 0..(Len(ranked_columns) - 1) : ranked_columns[idx + 1].rank # idx + 1}

\* C13: Rank sequencing.  validate_rsf never gets past its rank block, and
\* so never succeeds, when some schema column at 0-based index i has a
\* stored rank other than i+1; the rank block then reports the first such
\* column with i+1 as expected and the stored rank as found.
C13_RankSequencing ==
    /\ RankMismatches # {} =>
          pc \in {"rsf_column_order", "rsf_ranks", "rsf_rejected", "lib_checked"}
    /\ (pc = "rsf_rejected" /\ ReportedCheck = "rank_sequence") =>
          /\ RankMismatches # {}
          /\ outcome = [kind |-> "InvalidRank",
                        column |-> ranked_columns[SetMin(RankMismatches) + 1].name,
                        expected |-> SetMin(RankMismatches) + 1,
                        found |-> ranked_columns[SetMin(RankMismatches) + 1].rank]
    /\ (pc \in {"rsf_cardinality", "rsf_sorted", "rsf_valid"}) => RankMismatches = {}

\* A conforming two-column schema with 0-based ranks is rejected.
C13_Witness ==
    /\ pc = "rsf_rejected"
    /\ Len(ranked_columns) = 2
    /\ NameMismatches = {}
    /\ \A i \in 1..2 : ranked_columns[i].rank = i - 1
    /\ outcome.kind = "InvalidRank"
    /\ outcome.found = 0
    /\ outcome.expected = 1

\* The four checks of section 4.5 on the table and the schema.
ColumnOrderViolated ==
    Len(ranked_columns) # Len(headers) \/ NameMismatches # {}

CardinalityViolated ==
    \/ CardinalityMismatches(AsRead) # {}
    \/ \E i \in 1..(Min(Len(headers), Len(ranked_columns)) - 1) :
          DistinctCount(rows, i, AsRead) < DistinctCount(rows, i + 1, AsRead)

SortViolated ==
    \E k \in 1..(Len(rows) - 1) : RowCmp(rows[k], rows[k + 1]) = "Greater"

EarliestViolated ==
    IF ColumnOrderViolated THEN "column_order"
    ELSE IF RankMismatches # {} THEN "rank_sequence"
    ELSE IF CardinalityViolated THEN "cardinality"
    ELSE IF SortViolated THEN "sorted"
    ELSE "none"

ChecksInOrder == <<"column_order", "rank_sequence", "cardinality", "sorted">>

\* C14: Validation short-circuit order.  validate_rsf runs the checks in the
\* order column-order, rank sequencing, cardinality, canonical sort; its
\* result is that of the earliest check the table and schema violate, and
\* no check after that one runs.
C14_ShortCircuit ==
    /\ checks_run = SubSeq(ChecksInOrder, 1, Len(checks_run))
    /\ pc \in {"rsf_valid", "rsf_rejected"} =>
          /\ ReportedCheck = EarliestViolated
          /\ EarliestViolated # "none" =>
                checks_run[Len(checks_run)] = EarliestViolated

\* C15: The statistics lookups of validate_rsf's cardinality block never
\* fail: when that block is reached, every schema column has a header of
\* the same name at its position, and after it every schema column name has
\* a statistics entry, one per header, whatever the schema and the table.
C15_LookupsSucceed ==
    /\ pc # "rsf_panicked"
    /\ pc \in {"rsf_cardinality", "rsf_sorted", "rsf_valid"} =>
          \A i \in 1..Len(ranked_columns) :
              /\ i <= Len(headers)
              /\ headers[i] = ranked_columns[i].name
    /\ (Len(checks_run) >= 3) =>
          /\ Len(stats) = Len(headers)
          /\ \A i \in 1..Len(ranked_columns) : Found(stats, ranked_columns[i].name)

\* Both lookups ran for a two-column schema on a table without rows.
C15_Witness ==
    /\ Len(checks_run) >= 3
    /\ Len(ranked_columns) = 2
    /\ rows = <<>>
    /\ outcome.kind = "Ok"

\* C16: Canonicalization fixed point.  For a well-formed table T, ranking
\* the output of reorder_data(T, rank_columns(T)) yields the columns in the
\* order of the reordered headers with the same cardinalities and ranks,
\* and reordering again changes neither the headers nor the rows; neither
\* reordering aborts.
C16_FixedPoint ==
    /\ pc # "panicked"
    /\ pc \in {"reranked", "rereordered"} =>
          /\ again.ranked = ranked_columns
          /\ [j \in 1..Len(again.ranked) |-> again.ranked[j].name] = new_headers
    /\ pc = "rereordered" =>
          /\ again.headers = new_headers
          /\ again.rows = new_rows

\* A table whose first ranking moved a column, canonicalized twice.
C16_Witness ==
    /\ pc = "rereordered"
    /\ Len(headers) = 2
    /\ new_headers # headers
    /\ new_rows # rows
    /\ again.rows = new_rows
    /\ again.ranked = ranked_columns

====
